---------------------------- MODULE Spec2Model ----------------------------
(***************************************************************************)
(* Command relay of the Point&Click browser adapter.                       *)
(*                                                                         *)
(* The background service worker (src/extension/background.js) keeps one   *)
(* WebSocket to the relay server, receives command envelopes, routes them  *)
(* to tab operations or to the content script of a tab                     *)
(* (src/extension/contentScript.js) and sends the result envelopes back.   *)
(*                                                                         *)
(* Every action is one run-to-completion step of the single-threaded       *)
(* event loop: an event handler, or the continuation of an async function  *)
(* after one of its awaits, up to its next await.                          *)
(***************************************************************************)
EXTENDS Naturals, Integers, Sequences, FiniteSets, TLC

(***************************************************************************)
(* Bounds of the model.                                                    *)
(***************************************************************************)
\* sockets ever created by connectWS
MaxSockets == 2
\* command envelopes received from the relay server
MaxCmds == 2
\* tabs that can be open in the browser while the socket comes and goes
MaxTabs == 1
\* tabs that can be open in the browser while the socket stays
MaxOpenTabs == 2
\* messages the content script of a document gets
MaxCalls == 2
\* ms of a document's life that are looked at
HorizonMs == 350

(***************************************************************************)
(* Program constants.                                                      *)
(***************************************************************************)
\* background.js:7
RETRY_MS == 1500

\* background.js:8
actionTypes == {"waitFor", "query", "click", "type", "scroll", "switchTab"}

\* the ids the controller assigns, pairwise distinct, in order of arrival
IdNames == <<"c1", "c2", "c3", "c4">>
Ids == {IdNames[n] : n \in 1..MaxCmds}

\* a frame that carries no id (JSON.stringify drops an undefined id)
NoId == "none"
BootId == "boot-1"

Socks == 1..MaxSockets
TabIds == 1..MaxOpenTabs

VARIABLES
    socks,          \* readyState of every WebSocket created so far, in order
    ws,             \* the global ws: index into socks, 0 while undefined
    reconnectTimer, \* the global reconnectTimer: last handle stored, 0 while undefined
    timers,         \* the setTimeout(connectWS, ms) calls still pending: [h, ms]
    out,            \* per socket, the frames ws.send put on it, in order
    warned,         \* the objects wsSend dropped with console.warn
    nrecv,          \* number of command envelopes handleControllerCommand got
    h,              \* per command id, the state of its handleControllerCommand call
    activeTabId,    \* the global activeTabId, 0 while null
    tabs,           \* number of open tabs (tab ids are 1..tabs)
    shown,          \* the active tab of the current window, 0 when there is none
    script,         \* how the packaged contentScript.js replies: "direct" or "oob"
    exec,           \* per tab, whether the content script listens in its document
    oob,            \* runs of a content script that replies by chrome.runtime.sendMessage
    lastPath,       \* which path the last handler that ran took
    now,            \* ms since the document of the content script was loaded
    matchSince,     \* when the element the selector names came into the document
    ncall,          \* number of messages the content script's listener got
    call,           \* per message, the state of the listener's call for it
    effects         \* the DOM side effects dispatched so far, in order

connVars == <<socks, ws, reconnectTimer, timers>>
logVars == <<out, warned>>
cmdVars == <<nrecv, h>>
tabVars == <<activeTabId, tabs, shown, script, exec, oob>>
relayVars == <<socks, ws, reconnectTimer, timers, out, warned, nrecv, h,
               activeTabId, tabs, shown, script, exec, oob, lastPath>>
pageVars == <<now, matchSince, ncall, call, effects>>
vars == <<socks, ws, reconnectTimer, timers, out, warned, nrecv, h,
          activeTabId, tabs, shown, script, exec, oob, lastPath,
          now, matchSince, ncall, call, effects>>

-----------------------------------------------------------------------------
(***************************************************************************)
(* Frames                                                                  *)
(***************************************************************************)
\* background.js:23
HelloFrame == [type |-> "hello", id |-> NoId, ok |-> TRUE, val |-> "adapter"]
\* background.js:24
BootFrame == [type |-> "cmd", id |-> BootId, ok |-> TRUE, val |-> "ping"]

\* a Result Envelope {id, ok, data | error}
Result(id, ok, val) == [type |-> "result", id |-> id, ok |-> ok, val |-> val]


-----------------------------------------------------------------------------
(***************************************************************************)
(* Relay Client: wsSend, connectWS and the socket's handlers               *)
(***************************************************************************)
Live(st) == st \in {"CONNECTING", "OPEN"}

\* wsSend without the readyState test
WsOpenAnyState(sk, w) == w # 0

\* wsSend's test: ws && ws.readyState === WebSocket.OPEN
WsOpen(sk, w) == w # 0 /\ sk[w] = "OPEN"

\* wsSend(obj) on socket states sk and global w: ws.send, or console.warn
WsSendOut(sk, w, o, obj) ==
    IF WsOpen(sk, w) THEN [o EXCEPT ![w] = Append(@, obj)] ELSE o

WsSendWarn(sk, w, wn, obj) ==
    IF WsOpen(sk, w) THEN wn ELSE wn \cup {obj}

\* wsSend(obj) from a handler that leaves the sockets alone
WsSend(obj) ==
    /\ out' = WsSendOut(socks, ws, out, obj)
    /\ warned' = WsSendWarn(socks, ws, warned, obj)

\* connectWS returning only for an OPEN socket
ConnectReturnsOnlyOpen == ws # 0 /\ socks[ws] = "OPEN"

\* connectWS's first line: return when ws is OPEN or CONNECTING
ConnectReturns == ws # 0 /\ socks[ws] \in {"OPEN", "CONNECTING"}

\* connectWS(): a new WebSocket becomes the global ws, unless it returns at once
ConnectWS ==
    IF ConnectReturns
    THEN /\ UNCHANGED <<socks, ws>>
         /\ lastPath' = "connectReturn"
    ELSE /\ Len(socks) < MaxSockets
         /\ socks' = Append(socks, "CONNECTING")
         /\ ws' = Len(socks) + 1
         /\ lastPath' = "other"

\* a backoff that doubles with every socket closed before
RetryDelayDoubling(closedBefore) == RETRY_MS * (2 ^ closedBefore)

\* the delay ws.onclose arms the reconnect timer with
RetryDelay(closedBefore) == RETRY_MS

\* a ws.onclose that arms its timer without clearing the one armed before
OnCloseKeepsTimers(s) ==
    /\ timers' = timers
                    \cup {[h |-> s, ms |-> RetryDelay(Cardinality({x \in 1..Len(socks) : socks[x] = "CLOSED"}))]}
    /\ reconnectTimer' = s

\* ws.onclose of socket s: clearTimeout(reconnectTimer), then setTimeout(connectWS, RETRY_MS)
OnClose(s) ==
    /\ timers' = {t \in timers : t.h # reconnectTimer}
                    \cup {[h |-> s, ms |-> RetryDelay(Cardinality({x \in 1..Len(socks) : socks[x] = "CLOSED"}))]}
    /\ reconnectTimer' = s

\* ws.onerror: try { ws.close() } on the global ws, whichever socket erred
OnError(sk, w) ==
    IF w # 0 /\ Live(sk[w]) THEN [sk EXCEPT ![w] = "CLOSING"] ELSE sk

\* the open event of socket s: ws.onopen sends hello, then the boot-1 ping
SocketOpen(s) ==
    /\ s \in 1..Len(socks)
    /\ socks[s] = "CONNECTING"
    /\ socks' = [socks EXCEPT ![s] = "OPEN"]
    /\ out' = WsSendOut(socks', ws, WsSendOut(socks', ws, out, HelloFrame), BootFrame)
    /\ warned' = WsSendWarn(socks', ws, WsSendWarn(socks', ws, warned, HelloFrame), BootFrame)
    /\ lastPath' = "other"
    /\ UNCHANGED <<ws, reconnectTimer, timers, nrecv, h>>
    /\ UNCHANGED tabVars
    /\ UNCHANGED pageVars

\* the server starts the closing handshake: readyState becomes CLOSING
ServerClosing(s) ==
    /\ s \in 1..Len(socks)
    /\ socks[s] = "OPEN"
    /\ socks' = [socks EXCEPT ![s] = "CLOSING"]
    /\ lastPath' = "other"
    /\ UNCHANGED <<ws, reconnectTimer, timers, out, warned, nrecv, h>>
    /\ UNCHANGED tabVars
    /\ UNCHANGED pageVars

\* the connection of socket s fails: readyState CLOSED, error event, close event
SocketFail(s) ==
    /\ s \in 1..Len(socks)
    /\ socks[s] # "CLOSED"
    /\ socks' = OnError([socks EXCEPT ![s] = "CLOSED"], ws)
    /\ OnClose(s)
    /\ lastPath' = "other"
    /\ UNCHANGED <<ws, out, warned, nrecv, h>>
    /\ UNCHANGED tabVars
    /\ UNCHANGED pageVars

\* socket s, once open, closes cleanly: readyState CLOSED, close event only
SocketClose(s) ==
    /\ s \in 1..Len(socks)
    /\ socks[s] \in {"OPEN", "CLOSING"}
    /\ out[s] # <<>>
    /\ socks' = [socks EXCEPT ![s] = "CLOSED"]
    /\ OnClose(s)
    /\ lastPath' = "other"
    /\ UNCHANGED <<ws, out, warned, nrecv, h>>
    /\ UNCHANGED tabVars
    /\ UNCHANGED pageVars

\* the reconnect timer armed by ws.onclose fires: connectWS()
TimerFire(t) ==
    /\ t \in timers
    /\ timers' = timers \ {t}
    /\ ConnectWS
    /\ UNCHANGED <<reconnectTimer, out, warned, nrecv, h>>
    /\ UNCHANGED tabVars
    /\ UNCHANGED pageVars

\* chrome.runtime.onInstalled / onStartup: boot() calls connectWS()
Boot ==
    /\ ConnectWS
    /\ UNCHANGED <<reconnectTimer, timers, out, warned, nrecv, h>>
    /\ UNCHANGED tabVars
    /\ UNCHANGED pageVars

\* chrome.alarms.onAlarm with the pc_keepalive alarm: connectWS()
OnAlarm ==
    /\ ConnectWS
    /\ UNCHANGED <<reconnectTimer, timers, out, warned, nrecv, h>>
    /\ UNCHANGED tabVars
    /\ UNCHANGED pageVars

\* chrome.action.onClicked: connectWS()
OnClicked ==
    /\ ConnectWS
    /\ UNCHANGED <<reconnectTimer, timers, out, warned, nrecv, h>>
    /\ UNCHANGED tabVars
    /\ UNCHANGED pageVars


-----------------------------------------------------------------------------
(***************************************************************************)
(* Tab Session Manager and Command Router: handleControllerCommand         *)
(*                                                                         *)
(* h[id].pc names the await the call of command id is suspended at.        *)
(***************************************************************************)
\* the state of a command that was not received yet
Idle == [cmd |-> "", arg |-> "", pc |-> "idle", tab |-> 0, i |-> 0, ens |-> ""]

\* the cmd values the relay server is taken to send: the DOM commands query,
\* click, type and scroll are routed like waitFor, which stands for them
CmdInputs == {"navigate", "waitFor", "switchTab", "screenshot", "openTab",
              "ping", "bogus"}

\* the args of a command, as far as the router reads them
ArgInputs(cmd) ==
    CASE cmd = "openTab" -> {"url", "url,active:false", ""}
      [] cmd = "switchTab" -> {"index:9,title:Gmail"}
      [] OTHER -> {""}

\* the titles of the open tabs: the second tab shows Gmail
TabTitles == <<"Inbox", "Gmail", "Gmail">>

\* switchTab's target for args: the index is out of range, so the first tab
\* whose title includes args.title, 0 for null
Target(arg, n) ==
    LET hits == {t \in 1..n : arg = "index:9,title:Gmail" /\ TabTitles[t] = "Gmail"}
    IN IF hits = {} THEN 0 ELSE CHOOSE t \in hits : \A u \in hits : t <= u

\* a router that answers ping through the content script of a tab
BranchPingInTab(cmd) ==
    CASE cmd = "navigate" -> "navigate"
      [] cmd # "navigate" /\ cmd \in actionTypes \cup {"ping"} -> "dom"
      [] cmd \notin actionTypes /\ cmd = "screenshot" -> "screenshot"
      [] cmd \notin actionTypes /\ cmd = "openTab" -> "openTab"
      [] OTHER -> "unknown"

\* the branch of handleControllerCommand a cmd takes, tested in the code's order
Branch(cmd) ==
    CASE cmd = "navigate" -> "navigate"
      [] cmd # "navigate" /\ cmd \in actionTypes -> "dom"
      [] cmd \notin actionTypes /\ cmd = "switchTab" -> "switchTab"
      [] cmd \notin actionTypes /\ cmd = "screenshot" -> "screenshot"
      [] cmd \notin actionTypes /\ cmd = "openTab" -> "openTab"
      [] cmd \notin actionTypes /\ cmd = "ping" -> "ping"
      [] OTHER -> "unknown"

\* the call handleControllerCommand made for command id has not returned yet
Running(id) == h[id].pc \notin {"idle", "done"}

\* handleControllerCommand returns: nothing of the call r is left
Done(r) == [Idle EXCEPT !.pc = "done"]

\* a handler without its catch: an exception ends the call and sends nothing
ReplyUnlessThrown(id, ok, val) ==
    /\ IF ok THEN WsSend(Result(id, ok, val)) ELSE UNCHANGED <<out, warned>>
    /\ h' = [h EXCEPT ![id] = Done(@)]

\* the handler sends one result and returns
Reply(id, ok, val) ==
    /\ WsSend(Result(id, ok, val))
    /\ h' = [h EXCEPT ![id] = Done(@)]

\* an ensureContentScript call that reads the tracked active tab again
CallEnsureTracked(r, t, from) ==
    [r EXCEPT !.pc = "probe", !.tab = IF activeTabId # 0 THEN activeTabId ELSE t,
              !.ens = from]

\* ensureContentScript(tabId) is called: chrome.tabs.sendMessage(tabId, adapter:ping)
CallEnsure(r, t, from) == [r EXCEPT !.pc = "probe", !.tab = t, !.ens = from]

\* the code after `const tabId = ...` of a branch, with the tab resolved to t
AfterTab(r, t) ==
    CASE Branch(r.cmd) = "navigate" -> [r EXCEPT !.pc = "update", !.tab = t]
      [] Branch(r.cmd) = "dom" -> CallEnsure(r, t, "dom")
      [] OTHER -> [r EXCEPT !.pc = "capture", !.tab = t]

\* `activeTabId ?? (await getOrCreateActiveTab())`
TabOrQuery(r) ==
    IF activeTabId # 0 THEN AfterTab(r, activeTabId) ELSE [r EXCEPT !.pc = "query"]

\* handleControllerCommand(msg) up to its first await
Dispatch(id, cmd, arg) ==
    LET r == [Idle EXCEPT !.cmd = cmd, !.arg = arg] IN
    CASE Branch(cmd) = "navigate" ->
            /\ h' = [h EXCEPT ![id] = [r EXCEPT !.pc = "query"]]
            /\ UNCHANGED <<out, warned>>
      [] Branch(cmd) \in {"dom", "screenshot"} ->
            /\ h' = [h EXCEPT ![id] = TabOrQuery(r)]
            /\ UNCHANGED <<out, warned>>
      [] Branch(cmd) = "switchTab" ->
            /\ h' = [h EXCEPT ![id] = [r EXCEPT !.pc = "tabs"]]
            /\ UNCHANGED <<out, warned>>
      [] Branch(cmd) = "openTab" ->
            IF arg = ""
            THEN /\ WsSend(Result(id, FALSE, "missing_url"))
                 /\ h' = [h EXCEPT ![id] = Done(r)]
            ELSE /\ h' = [h EXCEPT ![id] = [r EXCEPT !.pc = "open"]]
                 /\ UNCHANGED <<out, warned>>
      [] Branch(cmd) = "ping" ->
            /\ WsSend(Result(id, TRUE, "pong"))
            /\ h' = [h EXCEPT ![id] = Done(r)]
      [] OTHER ->
            /\ WsSend(Result(id, FALSE, "unknown_command"))
            /\ h' = [h EXCEPT ![id] = Done(r)]

\* a field an object does not have
Absent == "absent"

\* what an inbound text frame can be: text that is not JSON, the JSON null, an
\* object without cmd (a role ack, a plain response), an object with an empty
\* cmd, a command envelope
InfoFrames ==
    {[json |-> FALSE, obj |-> FALSE, cmd |-> Absent, arg |-> ""],
     [json |-> TRUE, obj |-> FALSE, cmd |-> Absent, arg |-> ""],
     [json |-> TRUE, obj |-> TRUE, cmd |-> Absent, arg |-> ""],
     [json |-> TRUE, obj |-> TRUE, cmd |-> "", arg |-> ""]}

CmdFrames ==
    UNION {{[json |-> TRUE, obj |-> TRUE, cmd |-> c, arg |-> a] : a \in ArgInputs(c)} :
           c \in CmdInputs}

\* ws.onmessage testing only that cmd is there
IsCommandAnyCmd(f) == f.json /\ f.obj /\ f.cmd # Absent

\* ws.onmessage's tests: JSON.parse does not throw, msg is truthy, msg.cmd is truthy
IsCommand(f) == f.json /\ f.obj /\ f.cmd \notin {Absent, ""}

\* a ws.onmessage that takes a command only when no earlier one is in progress
OnMessageQueued(s, f) ==
    /\ s \in 1..Len(socks)
    /\ socks[s] = "OPEN"
    /\ IF IsCommand(f)
       THEN /\ \A id \in Ids : h[id].pc \in {"idle", "done"}
            /\ nrecv < MaxCmds
            /\ nrecv' = nrecv + 1
            /\ Dispatch(IdNames[nrecv + 1], f.cmd, f.arg)
            /\ lastPath' = "other"
       ELSE /\ lastPath' = "discard"
            /\ UNCHANGED <<nrecv, h, out, warned>>
    /\ UNCHANGED <<socks, ws, reconnectTimer, timers>>
    /\ UNCHANGED tabVars
    /\ UNCHANGED pageVars

\* ws.onmessage of socket s with frame f: handleControllerCommand(msg), or return;
\* a WebSocket delivers message events only while its readyState is OPEN
OnMessage(s, f) ==
    /\ s \in 1..Len(socks)
    /\ socks[s] = "OPEN"
    /\ IF IsCommand(f)
       THEN /\ nrecv < MaxCmds
            /\ nrecv' = nrecv + 1
            /\ Dispatch(IdNames[nrecv + 1], f.cmd, f.arg)
            /\ lastPath' = "other"
       ELSE /\ lastPath' = "discard"
            /\ UNCHANGED <<nrecv, h, out, warned>>
    /\ UNCHANGED <<socks, ws, reconnectTimer, timers>>
    /\ UNCHANGED tabVars
    /\ UNCHANGED pageVars

\* one attempt more
AttemptsThree == 2 + 1

\* attempts of sendToContentWithRetry, as handleControllerCommand calls it
Attempts == 2

\* chrome.tabs.query resolves: in getOrCreateActiveTab, with the active tab of
\* the current window, or in the switchTab branch, with every tab
QueryReturn(id) ==
    /\ h[id].pc \in {"query", "tabs"}
    /\ IF h[id].pc = "query"
       THEN /\ IF shown # 0
               THEN /\ activeTabId' = shown
                    /\ h' = [h EXCEPT ![id] = AfterTab(@, shown)]
               ELSE /\ h' = [h EXCEPT ![id].pc = "create"]
                    /\ UNCHANGED activeTabId
            /\ UNCHANGED <<out, warned>>
       ELSE /\ IF Target(h[id].arg, tabs) = 0
               THEN Reply(id, FALSE, "tab_not_found")
               ELSE /\ h' = [h EXCEPT ![id].pc = "activate",
                                      ![id].tab = Target(h[id].arg, tabs)]
                    /\ UNCHANGED <<out, warned>>
            /\ UNCHANGED activeTabId
    /\ lastPath' = "other"
    /\ UNCHANGED <<socks, ws, reconnectTimer, timers, nrecv>>
    /\ UNCHANGED <<tabs, shown, script, exec, oob>>
    /\ UNCHANGED pageVars

\* getOrCreateActiveTab after chrome.tabs.create({url: "about:blank"})
CreateReturn(id, cap) ==
    /\ h[id].pc = "create"
    /\ tabs < cap
    /\ tabs' = tabs + 1
    /\ shown' = tabs + 1
    /\ activeTabId' = tabs + 1
    /\ h' = [h EXCEPT ![id] = AfterTab(@, tabs + 1)]
    /\ lastPath' = "other"
    /\ UNCHANGED <<socks, ws, reconnectTimer, timers, out, warned, nrecv>>
    /\ UNCHANGED <<script, exec, oob>>
    /\ UNCHANGED pageVars

\* the pc of a navigate whose chrome.tabs.update is awaited: the update is
\* issued, the tab has committed the new document since, the tab has reported
\* the load complete since
UpdatePcs == {"update", "updateCommitted", "updateLoaded"}

\* the pc of a navigate in waitForTabComplete, by what its listener, registered
\* when the update resolved, can still hear: the commit and the complete of
\* the load, the complete of the load, or nothing of the load
AfterUpdate(pc) ==
    CASE pc = "update" -> "load0"
      [] pc = "updateCommitted" -> "load1"
      [] OTHER -> "loadMissed"

\* chrome.tabs.update settles. navigate, after update(tabId, {url}):
\* waitForTabComplete registers its listener and its interval. switchTab, after
\* update(target.id, {active: true}): activeTabId = target.id and the result.
\* A rejection reaches the outer catch
UpdateReturn(id, resolved) ==
    /\ h[id].pc \in UpdatePcs \cup {"activate"}
    /\ IF ~resolved
       THEN /\ Reply(id, FALSE, "api_error")
            /\ UNCHANGED <<activeTabId, shown>>
       ELSE IF h[id].pc \in UpdatePcs
            THEN /\ h' = [h EXCEPT ![id].pc = AfterUpdate(@)]
                 /\ UNCHANGED <<out, warned, activeTabId, shown>>
            ELSE /\ activeTabId' = h[id].tab
                 /\ shown' = h[id].tab
                 /\ Reply(id, TRUE, "switched")
    /\ lastPath' = "other"
    /\ UNCHANGED <<socks, ws, reconnectTimer, timers, nrecv>>
    /\ UNCHANGED <<tabs, script, exec, oob>>
    /\ UNCHANGED pageVars

\* what the replacement of tab t's document does to the call of a command
Unloaded(r, t) ==
    IF r.tab # t THEN r
    ELSE CASE r.pc = "exec" -> [r EXCEPT !.pc = "lost"]
           [] r.pc \in {"load0", "loadMissed"} -> [r EXCEPT !.pc = "load1"]
           [] r.pc \in {"update", "updateLoaded"} -> [r EXCEPT !.pc = "updateCommitted"]
           [] OTHER -> r

\* chrome.webNavigation.onCommitted for tab t: the tab has a new document,
\* its content script is gone, and the listener calls connectWS()
OnCommitted(t) ==
    /\ t \in 1..tabs
    /\ exec' = [exec EXCEPT ![t] = FALSE]
    /\ oob' = {j \in oob : j.tab # t}
    /\ h' = [id \in Ids |-> Unloaded(h[id], t)]
    /\ ConnectWS
    /\ UNCHANGED <<reconnectTimer, timers, out, warned, nrecv>>
    /\ UNCHANGED <<activeTabId, tabs, shown, script>>
    /\ UNCHANGED pageVars

\* chrome.tabs.onActivated for tab t: activeTabId = tabId, and connectWS()
OnActivated(t) ==
    /\ t \in 1..tabs
    /\ activeTabId' = t
    /\ shown' = t
    /\ ConnectWS
    /\ UNCHANGED <<reconnectTimer, timers, out, warned, nrecv, h>>
    /\ UNCHANGED <<tabs, script, exec, oob>>
    /\ UNCHANGED pageVars

\* ensureContentScript returns true to its caller
EnsureReturns(id) ==
    CASE h[id].ens = "nav" -> Reply(id, TRUE, "navigated")
      [] h[id].ens = "dom" ->
            /\ h' = [h EXCEPT ![id].pc = "send"]
            /\ UNCHANGED <<out, warned>>
      [] OTHER ->
            /\ h' = [h EXCEPT ![id].pc = "retryDelay"]
            /\ UNCHANGED <<out, warned>>

\* chrome.tabs.onUpdated reports status "complete" for the tab of a navigate
\* that still awaits chrome.tabs.update: no listener of waitForTabComplete is
\* registered yet
CompleteUnheard(id) ==
    /\ h[id].pc = "updateCommitted"
    /\ h' = [h EXCEPT ![id].pc = "updateLoaded"]
    /\ lastPath' = "other"
    /\ UNCHANGED <<socks, ws, reconnectTimer, timers, out, warned, nrecv>>
    /\ UNCHANGED tabVars
    /\ UNCHANGED pageVars

\* a wait that takes the tab for loaded before its URL was updated
NavCompleteEarly(id) ==
    /\ h[id].pc \in {"update", "load1"}
    /\ h' = [h EXCEPT ![id] = CallEnsure(@, @.tab, "nav")]
    /\ lastPath' = "other"
    /\ UNCHANGED <<socks, ws, reconnectTimer, timers, out, warned, nrecv>>
    /\ UNCHANGED tabVars
    /\ UNCHANGED pageVars

\* waitForTabComplete's listener sees status "complete" for the tab
NavComplete(id) ==
    /\ h[id].pc = "load1"
    /\ h' = [h EXCEPT ![id] = CallEnsure(@, @.tab, "nav")]
    /\ lastPath' = "other"
    /\ UNCHANGED <<socks, ws, reconnectTimer, timers, out, warned, nrecv>>
    /\ UNCHANGED tabVars
    /\ UNCHANGED pageVars

\* waitForTabComplete's interval finds the timeout elapsed
LoadTimeout(id) ==
    /\ h[id].pc \in {"load0", "load1", "loadMissed"}
    /\ Reply(id, FALSE, "tab_load_timeout")
    /\ lastPath' = "other"
    /\ UNCHANGED <<socks, ws, reconnectTimer, timers, nrecv>>
    /\ UNCHANGED tabVars
    /\ UNCHANGED pageVars

\* a probe whose answer is never taken for ok
ProbeAnsweredNever(loaded, kind) == FALSE

\* the content script's answer to adapter:ping, as the background reads it
ProbeAnswered(loaded, kind) == loaded /\ kind = "direct"

\* ensureContentScript after chrome.tabs.sendMessage(tabId, {type: "adapter:ping"})
ProbeReturn(id) ==
    /\ h[id].pc = "probe"
    /\ IF ProbeAnswered(exec[h[id].tab], script)
       THEN /\ EnsureReturns(id)
            /\ UNCHANGED oob
       ELSE /\ h' = [h EXCEPT ![id].pc = "inject"]
            /\ oob' = IF exec[h[id].tab]
                      THEN oob \cup {[id |-> NoId, tab |-> h[id].tab, kind |-> "pong",
                                      cmd |-> ""]}
                      ELSE oob
            /\ UNCHANGED <<out, warned>>
    /\ lastPath' = "other"
    /\ UNCHANGED <<socks, ws, reconnectTimer, timers, nrecv>>
    /\ UNCHANGED <<activeTabId, tabs, shown, script, exec>>
    /\ UNCHANGED pageVars

\* an ensureContentScript that fails the command when executeScript fails
InjectReturnFatal(id, injected) ==
    /\ h[id].pc = "inject"
    /\ exec' = [exec EXCEPT ![h[id].tab] = @ \/ injected]
    /\ IF injected \/ exec[h[id].tab]
       THEN /\ h' = [h EXCEPT ![id].pc = "settle"]
            /\ UNCHANGED <<out, warned>>
       ELSE Reply(id, FALSE, "inject_failed")
    /\ lastPath' = "other"
    /\ UNCHANGED <<socks, ws, reconnectTimer, timers, nrecv>>
    /\ UNCHANGED <<activeTabId, tabs, shown, script, oob>>
    /\ UNCHANGED pageVars

\* ensureContentScript after chrome.scripting.executeScript: the script runs in
\* the tab unless the call failed or the tab's document already holds it
InjectReturn(id, injected) ==
    /\ h[id].pc = "inject"
    /\ exec' = [exec EXCEPT ![h[id].tab] = @ \/ injected]
    /\ h' = [h EXCEPT ![id].pc = "settle"]
    /\ lastPath' = "other"
    /\ UNCHANGED <<socks, ws, reconnectTimer, timers, out, warned, nrecv>>
    /\ UNCHANGED <<activeTabId, tabs, shown, script, oob>>
    /\ UNCHANGED pageVars

\* ensureContentScript after delay(150)
SettleReturn(id) ==
    /\ h[id].pc = "settle"
    /\ EnsureReturns(id)
    /\ lastPath' = "other"
    /\ UNCHANGED <<socks, ws, reconnectTimer, timers, nrecv>>
    /\ UNCHANGED tabVars
    /\ UNCHANGED pageVars


\* what the content script's handler of a cmd can answer, by the page's content
ExecOutcomes(cmd) ==
    CASE cmd = "waitFor" -> {[ok |-> TRUE, val |-> "waitedFor"],
                             [ok |-> FALSE, val |-> "waitFor_timeout"]}
      [] cmd \in {"query", "click", "type", "scroll"} ->
                            {[ok |-> TRUE, val |-> "clicked"],
                             [ok |-> FALSE, val |-> "element_not_found"]}
      [] OTHER -> {[ok |-> FALSE, val |-> "unknown_command"]}

\* the {id, ok, data | error} the content script builds for command id
Response(id, o) == Result(id, o.ok, o.val)

\* the content script's listener answers adapter:cmd with sendResponse
AnswersDirectly(kind) == kind = "direct"

\* a content script that sends every answer out of band as well
AnswersOutOfBandToo(kind) == TRUE

\* the content script answers adapter:cmd with chrome.runtime.sendMessage
AnswersOutOfBand(kind) == kind = "oob"

\* the messages chrome.tabs.sendMessage rejects with: no listener in the tab,
\* or the tab's document went away before the listener answered
NoReceiverMsg == "Receiving end does not exist"
ChannelClosedMsg == "channel_closed"

\* a catch that takes every failure of the send for a missing receiver
IsNoReceiverAlways(msg) == TRUE

\* sendToContentWithRetry's test of the failure, line 62
IsNoReceiver(msg) == msg = NoReceiverMsg

\* a catch that sends again after every failure of the send
SendFailsRetrying(id, msg) ==
    /\ h' = [h EXCEPT ![id] = CallEnsure(@, @.tab, "retry")]
    /\ UNCHANGED <<out, warned>>

\* the catch of sendToContentWithRetry: ensureContentScript again for a missing
\* receiver, else `throw e`, which handleControllerCommand turns into a result
SendFails(id, msg) ==
    IF IsNoReceiver(msg)
    THEN /\ h' = [h EXCEPT ![id] = CallEnsure(@, @.tab, "retry")]
         /\ UNCHANGED <<out, warned>>
    ELSE Reply(id, FALSE, msg)

\* sendToContentWithRetry after chrome.tabs.sendMessage(tabId, adapter:cmd)
SendReturn(id) ==
    /\ h[id].pc = "send"
    /\ IF ~exec[h[id].tab]
       THEN /\ SendFails(id, NoReceiverMsg)
            /\ UNCHANGED oob
       ELSE \* delivered: the listener will call sendResponse, or no listener
            \* answers, resp is undefined and nothing is sent
            /\ h' = [h EXCEPT ![id] = IF AnswersDirectly(script)
                                      THEN [@ EXCEPT !.pc = "exec"]
                                      ELSE Done(@)]
            /\ oob' = IF AnswersOutOfBand(script)
                      THEN oob \cup {[id |-> id, tab |-> h[id].tab, kind |-> "result",
                                      cmd |-> h[id].cmd]}
                      ELSE oob
            /\ UNCHANGED <<out, warned>>
    /\ lastPath' = "other"
    /\ UNCHANGED <<socks, ws, reconnectTimer, timers, nrecv>>
    /\ UNCHANGED <<activeTabId, tabs, shown, script, exec>>
    /\ UNCHANGED pageVars

\* sendToContentWithRetry after delay(150): continue, then the loop test
RetryDelayReturn(id) ==
    /\ h[id].pc = "retryDelay"
    /\ IF h[id].i + 1 < Attempts
       THEN /\ h' = [h EXCEPT ![id].pc = "send", ![id].i = @ + 1]
            /\ UNCHANGED <<out, warned>>
       ELSE Reply(id, FALSE, "no_receiver_after_retry")
    /\ lastPath' = "other"
    /\ UNCHANGED <<socks, ws, reconnectTimer, timers, nrecv>>
    /\ UNCHANGED tabVars
    /\ UNCHANGED pageVars

\* the content script calls sendResponse(resp): `if (resp !== undefined) wsSend(resp)`
ExecReply(id, o) ==
    /\ h[id].pc = "exec"
    /\ o \in ExecOutcomes(h[id].cmd)
    /\ WsSend(Response(id, o))
    /\ h' = [h EXCEPT ![id] = Done(@)]
    /\ lastPath' = "other"
    /\ UNCHANGED <<socks, ws, reconnectTimer, timers, nrecv>>
    /\ UNCHANGED tabVars
    /\ UNCHANGED pageVars

\* the tab's document went away before sendResponse: sendMessage rejects with
\* a message other than "Receiving end does not exist"
ExecLost(id) ==
    /\ h[id].pc = "lost"
    /\ SendFails(id, ChannelClosedMsg)
    /\ lastPath' = "other"
    /\ UNCHANGED <<socks, ws, reconnectTimer, timers, nrecv>>
    /\ UNCHANGED tabVars
    /\ UNCHANGED pageVars

\* the data URL of a picture of tab t
DataUrls == <<"dataUrl:tab1", "dataUrl:tab2", "dataUrl:tab3">>

\* the tab chrome.tabs.captureVisibleTab(undefined, ...) takes the picture of:
\* the active tab of the current window; tabId is the handler's `const tabId`
CapturedTab(tabId) == shown

\* screenshot after chrome.tabs.captureVisibleTab(undefined, {format})
CaptureReturn(id, resolved) ==
    /\ h[id].pc = "capture"
    /\ IF resolved /\ CapturedTab(h[id].tab) # 0
       THEN Reply(id, TRUE, DataUrls[CapturedTab(h[id].tab)])
       ELSE Reply(id, FALSE, "api_error")
    /\ lastPath' = "other"
    /\ UNCHANGED <<socks, ws, reconnectTimer, timers, nrecv>>
    /\ UNCHANGED tabVars
    /\ UNCHANGED pageVars

\* an openTab that tracks the created tab only when the browser shows it
OpenReturnTracksShown(id, resolved, cap) ==
    /\ h[id].pc = "open"
    /\ IF resolved
       THEN /\ tabs < cap
            /\ tabs' = tabs + 1
            /\ shown' = IF h[id].arg = "url" \/ shown = 0 THEN tabs + 1 ELSE shown
            /\ activeTabId' = IF shown' = tabs + 1 THEN tabs + 1 ELSE activeTabId
            /\ Reply(id, TRUE, "opened")
       ELSE /\ Reply(id, FALSE, "api_error")
            /\ UNCHANGED <<tabs, activeTabId, shown>>
    /\ lastPath' = "other"
    /\ UNCHANGED <<socks, ws, reconnectTimer, timers, nrecv>>
    /\ UNCHANGED <<script, exec, oob>>
    /\ UNCHANGED pageVars

\* openTab after chrome.tabs.create({url, active}); a tab created when none
\* is open is the one shown
OpenReturn(id, resolved, cap) ==
    /\ h[id].pc = "open"
    /\ IF resolved
       THEN /\ tabs < cap
            /\ tabs' = tabs + 1
            /\ activeTabId' = tabs + 1
            /\ shown' = IF h[id].arg = "url" \/ shown = 0 THEN tabs + 1 ELSE shown
            /\ Reply(id, TRUE, "opened")
       ELSE /\ Reply(id, FALSE, "api_error")
            /\ UNCHANGED <<tabs, activeTabId, shown>>
    /\ lastPath' = "other"
    /\ UNCHANGED <<socks, ws, reconnectTimer, timers, nrecv>>
    /\ UNCHANGED <<script, exec, oob>>
    /\ UNCHANGED pageVars

\* the message a content script run j sends with chrome.runtime.sendMessage
RuntimeMessage(j, o) ==
    IF j.kind = "pong"
    THEN [type |-> "adapter:pong", id |-> NoId, ok |-> TRUE, val |-> ""]
    ELSE Response(j.id, o)

\* the listener forwarding every message with a boolean ok
ForwardsWithoutId(msg) == msg.ok \in BOOLEAN

\* the test of the chrome.runtime.onMessage listener of the background
Forwards(msg) == msg.ok \in BOOLEAN /\ msg.id # NoId

\* chrome.runtime.onMessage of the background: forward a result to the socket
RuntimeOnMessage(j, o) ==
    /\ j \in oob
    /\ o \in IF j.kind = "pong" THEN {[ok |-> TRUE, val |-> ""]}
             ELSE ExecOutcomes(j.cmd)
    /\ oob' = oob \ {j}
    /\ IF Forwards(RuntimeMessage(j, o))
       THEN WsSend(RuntimeMessage(j, o))
       ELSE UNCHANGED <<out, warned>>
    /\ lastPath' = IF Forwards(RuntimeMessage(j, o)) THEN "other" ELSE "notForwarded"
    /\ UNCHANGED <<socks, ws, reconnectTimer, timers, nrecv, h>>
    /\ UNCHANGED <<activeTabId, tabs, shown, script, exec>>
    /\ UNCHANGED pageVars

-----------------------------------------------------------------------------
(***************************************************************************)
(* Executor: the content script of one document, contentScript.js          *)
(*                                                                         *)
(* The document holds five elements of class item from the start, and an   *)
(* element with id go that the page inserts at some moment. call[c] is the *)
(* state of the listener's call for the c-th message; time is in ms.       *)
(***************************************************************************)
Calls == 1..MaxCalls

\* contentScript.js:29
POLL_MS == 150

\* contentScript.js:70
DEFAULT_TIMEOUT_MS == 10000

\* the clock moves in steps of this many ms
TickSteps == {50}

\* the texts of the elements of class item, in document order
Items == <<"a", "b", "c", "d", "e">>

\* document.querySelector(sel) throws a SyntaxError for the empty selector
Throws(sel) == sel = ""

\* $$(sel): the texts of the elements sel matches, in document order, in a
\* document where the element go is there since m
All(sel, m) ==
    CASE sel = ".item" -> Items
      [] sel = "#go" /\ m # {} -> <<"go">>
      [] OTHER -> <<>>

\* document.querySelector(sel) is truthy
Found(sel, m) == All(sel, m) # <<>>

NoResp == [ok |-> FALSE, val |-> "", results |-> <<>>]
Ok(val) == [ok |-> TRUE, val |-> val, results |-> <<>>]
Err(val) == [ok |-> FALSE, val |-> val, results |-> <<>>]

\* a message that did not come yet
NoCall == [cmd |-> "", sel |-> "", timeoutMs |-> 0, start |-> 0, st |-> "none",
           observer |-> FALSE, poll |-> FALSE, next |-> 0, resp |-> NoResp]

\* sendResponse(resp) of a call: the call is over
Respond(r, resp) == [r EXCEPT !.st = "settled", !.resp = resp]

\* resolve(true) of waitForSelector's promise, then line 71; a promise that
\* is settled stays as it is
Resolve(r) == IF r.st = "pending" THEN Respond(r, Ok("waitedFor")) ELSE r

\* reject(new Error("waitFor_timeout")), then the catch of line 127
Reject(r) == IF r.st = "pending" THEN Respond(r, Err("waitFor_timeout")) ELSE r

\* `args.timeoutMs || 10000`; 0 stands for a timeoutMs that is not given
TimeoutMs(arg) == IF arg = 0 THEN DEFAULT_TIMEOUT_MS ELSE arg

\* the listener gets adapter:cmd waitFor: waitForSelector up to its return,
\* or up to the promise with its observer and its interval
WaitForMsg(sel, arg) ==
    /\ ncall < MaxCalls
    /\ ncall' = ncall + 1
    /\ LET r == [NoCall EXCEPT !.cmd = "waitFor", !.sel = sel,
                               !.timeoutMs = TimeoutMs(arg), !.start = now] IN
       call' = [call EXCEPT ![ncall + 1] =
                  IF ~Throws(sel) /\ Found(sel, matchSince)
                  THEN Respond(r, Ok("waitedFor"))
                  ELSE [r EXCEPT !.st = "pending", !.observer = TRUE, !.poll = TRUE,
                                 !.next = now + POLL_MS]]
    /\ UNCHANGED <<now, matchSince, effects>>
    /\ UNCHANGED relayVars

\* the MutationObserver's callback of a call, in a document with go since m
ObserverRun(r, m) ==
    IF r.observer /\ ~Throws(r.sel) /\ Found(r.sel, m)
    THEN Resolve([r EXCEPT !.observer = FALSE])
    ELSE r

\* the page inserts the element go: the observers of the document run
DomInsert ==
    /\ matchSince = {}
    /\ matchSince' = {now}
    /\ call' = [c \in Calls |-> ObserverRun(call[c], {now})]
    /\ UNCHANGED <<now, ncall, effects>>
    /\ UNCHANGED relayVars

\* the interval's callback of a call at time t
PollRun(r, t, m) ==
    IF Throws(r.sel) THEN [r EXCEPT !.next = t + POLL_MS]
    ELSE LET a == IF Found(r.sel, m)
                  THEN Resolve([r EXCEPT !.poll = FALSE, !.observer = FALSE])
                  ELSE r
             b == IF t - r.start > r.timeoutMs
                  THEN Reject([a EXCEPT !.poll = FALSE, !.observer = FALSE])
                  ELSE a
         IN IF b.poll THEN [b EXCEPT !.next = t + POLL_MS] ELSE b

\* the interval of call c fires
Poll(c) ==
    /\ call[c].poll
    /\ call[c].next = now
    /\ call' = [call EXCEPT ![c] = PollRun(@, now, matchSince)]
    /\ UNCHANGED <<now, matchSince, ncall, effects>>
    /\ UNCHANGED relayVars

\* time passes, once every interval that is due has fired
Tick(d) ==
    /\ now + d <= HorizonMs
    /\ \A c \in Calls : call[c].poll => call[c].next > now
    /\ now' = now + d
    /\ UNCHANGED <<matchSince, ncall, call, effects>>
    /\ UNCHANGED relayVars

\* what a query can give as limit: no integer (absent, null, "2", 1.5), or
\* the integer n
LimitInputs == {[int |-> FALSE, n |-> 0], [int |-> TRUE, n |-> 2],
                [int |-> TRUE, n |-> 0], [int |-> TRUE, n |-> 9],
                [int |-> TRUE, n |-> 0 - 1]}

\* Array.prototype.slice(0, n) on s
Slice(s, n) ==
    LET k == IF n < 0
             THEN (IF Len(s) + n < 0 THEN 0 ELSE Len(s) + n)
             ELSE (IF n > Len(s) THEN Len(s) ELSE n)
    IN SubSeq(s, 1, k)

\* the `out` of the query branch: the nodes' values, then the limit
QueryResults(sel, all, limit, m) ==
    LET nodes == IF all \/ All(sel, m) = <<>> THEN All(sel, m) ELSE <<Head(All(sel, m))>>
    IN IF limit.int THEN Slice(nodes, limit.n) ELSE nodes

\* the listener gets adapter:cmd query
QueryMsg(sel, all, limit) ==
    /\ ncall < MaxCalls
    /\ ncall' = ncall + 1
    /\ LET r == [NoCall EXCEPT !.cmd = "query"] IN
       call' = [call EXCEPT ![ncall + 1] =
                  IF sel = ""
                  THEN Respond(r, Err("missing_selector"))
                  ELSE Respond(r, [ok |-> TRUE, val |-> "results",
                                   results |-> QueryResults(sel, all, limit, matchSince)])]
    /\ UNCHANGED <<now, matchSince, effects>>
    /\ UNCHANGED relayVars

\* no element: the null of $(selector) and of document.elementFromPoint
NoEl == "null"

\* $(sel)
First(sel, m) == IF Found(sel, m) THEN Head(All(sel, m)) ELSE NoEl

\* document.elementFromPoint(xy.x, xy.y): null for a point outside the viewport
ElementFromPoint(xy) == IF xy = "inside" THEN "body" ELSE NoEl

\* a click that hovers the body before it finds that there is no element
SafeClickHoversBody(el, eff) ==
    IF el = NoEl
    THEN [threw |-> TRUE, eff |-> Append(eff, [op |-> "mouseover", el |-> "body"])]
    ELSE [threw |-> FALSE,
          eff |-> eff \o <<[op |-> "scrollIntoView", el |-> el],
                           [op |-> "mouseover", el |-> el],
                           [op |-> "click", el |-> el]>>]

\* safeClick(el) with the side effects eff dispatched before it
SafeClick(el, eff) ==
    IF el = NoEl
    THEN [threw |-> TRUE, eff |-> eff]
    ELSE [threw |-> FALSE,
          eff |-> eff \o <<[op |-> "scrollIntoView", el |-> el],
                           [op |-> "mouseover", el |-> el],
                           [op |-> "click", el |-> el]>>]

\* the listener gets adapter:cmd click; xy is "none" when args has no xy
ClickMsg(sel, xy) ==
    /\ ncall < MaxCalls
    /\ ncall' = ncall + 1
    /\ LET r == [NoCall EXCEPT !.cmd = "click"]
           el == IF sel # "" THEN First(sel, matchSince) ELSE ElementFromPoint(xy)
           sc == SafeClick(el, effects)
       IN IF sel = "" /\ xy = "none"
          THEN /\ call' = [call EXCEPT ![ncall + 1] =
                             Respond(r, Err("missing_selector_or_xy"))]
               /\ UNCHANGED effects
          ELSE /\ effects' = sc.eff
               /\ call' = [call EXCEPT ![ncall + 1] =
                             Respond(r, IF sc.threw THEN Err("element_not_found")
                                        ELSE IF sel # "" THEN Ok("clicked")
                                        ELSE Ok("clickedXY"))]
    /\ UNCHANGED <<now, matchSince>>
    /\ UNCHANGED relayVars

\* a listener that answers adapter:ping after the calls that are pending
PingMsgQueued ==
    /\ ncall < MaxCalls
    /\ ncall' = ncall + 1
    /\ call' = [call EXCEPT ![ncall + 1] =
                  IF \E c \in Calls : call[c].st = "pending"
                  THEN [NoCall EXCEPT !.cmd = "ping", !.st = "pending"]
                  ELSE Respond([NoCall EXCEPT !.cmd = "ping"],
                               Ok("adapter:pong"))]
    /\ UNCHANGED <<now, matchSince, effects>>
    /\ UNCHANGED relayVars

\* the listener gets adapter:ping: sendResponse at once, and return
PingMsg ==
    /\ ncall < MaxCalls
    /\ ncall' = ncall + 1
    /\ call' = [call EXCEPT ![ncall + 1] =
                  Respond([NoCall EXCEPT !.cmd = "ping"],
                          Ok("adapter:pong"))]
    /\ UNCHANGED <<now, matchSince, effects>>
    /\ UNCHANGED relayVars

\* the document is loaded and its content script has run
PageLoaded ==
    /\ now = 0
    /\ matchSince = {}
    /\ ncall = 0
    /\ call = [c \in Calls |-> NoCall]
    /\ effects = <<>>

-----------------------------------------------------------------------------
(***************************************************************************)
(* The specification                                                       *)
(***************************************************************************)
\* the service worker's script has run: its last line called connectWS()
Init ==
    /\ socks = <<"CONNECTING">>
    /\ ws = 1
    /\ reconnectTimer = 0
    /\ timers = {}
    /\ out = [s \in Socks |-> <<>>]
    /\ warned = {}
    /\ nrecv = 0
    /\ h = [id \in Ids |-> Idle]
    /\ activeTabId = 0
    /\ tabs \in {0, 1}
    /\ shown = tabs
    /\ script \in {"direct", "oob"}
    /\ exec \in [TabIds -> BOOLEAN]
    /\ \A t \in TabIds : t > tabs => ~exec[t]
    /\ oob = {}
    /\ lastPath = "other"
    /\ PageLoaded

Outcome == [ok : BOOLEAN, val : {"", "waitedFor", "waitFor_timeout", "clicked",
                                 "element_not_found", "unknown_command"}]

Next ==
    \/ \E s \in Socks : SocketOpen(s)
    \/ \E s \in Socks : ServerClosing(s)
    \/ \E s \in Socks : SocketFail(s)
    \/ \E s \in Socks : SocketClose(s)
    \/ \E t \in timers : TimerFire(t)
    \/ Boot
    \/ OnAlarm
    \/ OnClicked
    \/ \E t \in TabIds : OnCommitted(t)
    \/ \E t \in TabIds : OnActivated(t)
    \/ \E s \in Socks, f \in InfoFrames \cup CmdFrames : OnMessage(s, f)
    \/ \E id \in Ids : QueryReturn(id)
    \/ \E id \in Ids : CreateReturn(id, MaxTabs)
    \/ \E id \in Ids, b \in BOOLEAN : UpdateReturn(id, b)
    \/ \E id \in Ids : CompleteUnheard(id)
    \/ \E id \in Ids : NavComplete(id)
    \/ \E id \in Ids : LoadTimeout(id)
    \/ \E id \in Ids : ProbeReturn(id)
    \/ \E id \in Ids, b \in BOOLEAN : InjectReturn(id, b)
    \/ \E id \in Ids : SettleReturn(id)
    \/ \E id \in Ids : SendReturn(id)
    \/ \E id \in Ids : RetryDelayReturn(id)
    \/ \E id \in Ids, o \in Outcome : ExecReply(id, o)
    \/ \E id \in Ids : ExecLost(id)
    \/ \E id \in Ids, b \in BOOLEAN : CaptureReturn(id, b)
    \/ \E id \in Ids, b \in BOOLEAN : OpenReturn(id, b, MaxTabs)
    \/ \E j \in oob, o \in Outcome : RuntimeOnMessage(j, o)

Spec == Init /\ [][Next]_vars

\* the tabs and the commands under a socket that opens and stays open
NextTabs ==
    \/ \E s \in Socks : SocketOpen(s)
    \/ \E t \in TabIds : OnCommitted(t)
    \/ \E t \in TabIds : OnActivated(t)
    \/ \E s \in Socks, f \in CmdFrames : OnMessage(s, f)
    \/ \E id \in Ids : QueryReturn(id)
    \/ \E id \in Ids : CreateReturn(id, MaxOpenTabs)
    \/ \E id \in Ids, b \in BOOLEAN : UpdateReturn(id, b)
    \/ \E id \in Ids : CompleteUnheard(id)
    \/ \E id \in Ids : NavComplete(id)
    \/ \E id \in Ids : LoadTimeout(id)
    \/ \E id \in Ids : ProbeReturn(id)
    \/ \E id \in Ids, b \in BOOLEAN : InjectReturn(id, b)
    \/ \E id \in Ids : SettleReturn(id)
    \/ \E id \in Ids : SendReturn(id)
    \/ \E id \in Ids : RetryDelayReturn(id)
    \/ \E id \in Ids, o \in Outcome : ExecReply(id, o)
    \/ \E id \in Ids : ExecLost(id)
    \/ \E id \in Ids, b \in BOOLEAN : CaptureReturn(id, b)
    \/ \E id \in Ids, b \in BOOLEAN : OpenReturn(id, b, MaxOpenTabs)
    \/ \E j \in oob, o \in Outcome : RuntimeOnMessage(j, o)

TabSpec == Init /\ [][NextTabs]_vars

\* what the messages of the listener's commands can carry
SelInputs == {"", "#go", "#none", ".item"}
TimeoutInputs == {0, 200}
XyInputs == {"none", "inside", "outside"}

\* one tab whose document holds the content script
InitPage ==
    /\ Init
    /\ tabs = 1
    /\ script = "direct"
    /\ exec = [t \in TabIds |-> t = 1]

\* the content script of a document, its messages, the page and the clock
NextPage ==
    \/ \E sel \in SelInputs, arg \in TimeoutInputs : WaitForMsg(sel, arg)
    \/ \E sel \in SelInputs, all \in BOOLEAN, limit \in LimitInputs : QueryMsg(sel, all, limit)
    \/ \E sel \in SelInputs, xy \in XyInputs : ClickMsg(sel, xy)
    \/ PingMsg
    \/ DomInsert
    \/ \E c \in Calls : Poll(c)
    \/ \E d \in TickSteps : Tick(d)

PageSpec == InitPage /\ [][NextPage]_vars

\* the relay client alone: the socket's life, the connect triggers and the
\* frames that are no commands
NextConn ==
    \/ \E s \in Socks : SocketOpen(s)
    \/ \E s \in Socks : ServerClosing(s)
    \/ \E s \in Socks : SocketFail(s)
    \/ \E s \in Socks : SocketClose(s)
    \/ \E t \in timers : TimerFire(t)
    \/ Boot
    \/ OnAlarm
    \/ OnClicked
    \/ \E t \in TabIds : OnCommitted(t)
    \/ \E t \in TabIds : OnActivated(t)
    \/ \E s \in Socks, f \in InfoFrames : OnMessage(s, f)

\* a timer set with setTimeout fires: the event loop runs every due callback
FairConn == Init /\ [][NextConn]_vars /\ WF_vars(\E t \in timers : TimerFire(t))

-----------------------------------------------------------------------------
(***************************************************************************)
(* Properties                                                              *)
(***************************************************************************)
\* the frames sent so far, as places [s, k]: frame k of socket s
Sent == UNION {{[s |-> s, k |-> k] : k \in 1..Len(out[s])} : s \in Socks}

FrameAt(p) == out[p.s][p.k]

\* the frames sent so far that are neither the hello nor the boot-1 ping
SentResults == {p \in Sent : FrameAt(p) \notin {HelloFrame, BootFrame}}

\* number of results sent so far with the id of command id
SentCount(id) == Cardinality({p \in SentResults : FrameAt(p).id = id})

\* the ids of the commands received so far
Received == {IdNames[n] : n \in 1..nrecv}

\* the connection state of the spec: Connected, Connecting, or Disconnected
Connected == ws # 0 /\ socks[ws] = "OPEN"
Connecting == ws # 0 /\ socks[ws] = "CONNECTING"

\* nothing of command id is still to happen: its handler returned and no
\* content script is running it
Settled(id) == h[id].pc = "done" /\ \A j \in oob : j.id # id

\* this step hands frame f to wsSend: it is sent on a socket, or dropped with
\* a warning
Emitted(f) ==
    \/ \E s \in Socks : /\ Len(out'[s]) = Len(out[s]) + 1
                         /\ out'[s][Len(out'[s])] = f
    \/ f \in warned' /\ f \notin warned

\* C1: every command whose handling has completed while the connection stayed
\* Connected (the one socket ever created is still open) has had exactly one
\* Result Envelope sent for it, whatever its cmd and whatever fault occurred
C1_ExactlyOneResult ==
    (Len(socks) = 1 /\ socks[1] = "OPEN") =>
        \A id \in Received : Settled(id) => SentCount(id) = 1

\* C2: at most one Result Envelope with a given id is ever sent: the direct
\* reply and the out-of-band forwarder never both emit one for a command, and
\* a retried send yields no second one
C2_AtMostOneResult == \A id \in Ids : SentCount(id) <= 1

\* the forwarder has emitted the one result of a DOM command
C2_Witness ==
    /\ script = "oob"
    /\ \E id \in Received :
          /\ Settled(id)
          /\ SentCount(id) = 1
          /\ \E p \in SentResults : FrameAt(p) = Result(id, TRUE, "waitedFor")

\* C3: every frame sent, other than the hello frame and the boot-1 ping,
\* carries the id of a command received before
C3_ResultsAnswerCommands == \A p \in SentResults : FrameAt(p).id \in Received

\* the forwarder has just declined a pong, which carries no id, after the
\* result of a command was sent
C3_Witness == lastPath = "notForwarded" /\ SentResults # {}

\* C4: at most one socket is CONNECTING or OPEN
C4_AtMostOneLiveSocket ==
    Cardinality({s \in 1..Len(socks) : Live(socks[s])}) <= 1

\* a connect trigger made a new socket while the old one was still closing
C4_Witness == Len(socks) = 2 /\ socks[1] = "CLOSING" /\ Live(socks[2])

\* C5: a connect attempt made while Connecting or Connected creates no socket,
\* sends no frame, and leaves the connection state and the reconnect timer as
\* they are (the timer that made the attempt is the one that fired)
C5_ConnectIsNoOpWhenLive ==
    [][(Connecting \/ Connected) =>
         /\ (Boot \/ OnAlarm \/ OnClicked
                \/ \E t \in TabIds : OnActivated(t) \/ OnCommitted(t))
              => UNCHANGED <<socks, ws, out, reconnectTimer, timers>>
         /\ \A t \in timers : TimerFire(t)
              => UNCHANGED <<socks, ws, out, reconnectTimer>> /\ timers' = timers \ {t}
      ]_vars

\* a connect attempt returned at once while the socket was still connecting
C5_Witness == lastPath = "connectReturn" /\ Connecting

\* C6: every close event arms the reconnect timer with the constant delay
\* RETRY_MS; a pending timer fires (unless the model's socket bound stops it)
\* and its firing is a connect attempt: a new socket is made unless one is
\* live; a socket that opens sends the hello frame first
C6_ReconnectAfterRetryDelay ==
    /\ [][\A s \in Socks :
            (s <= Len(socks) /\ socks[s] # "CLOSED" /\ socks'[s] = "CLOSED")
               => timers' = {[h |-> s, ms |-> RETRY_MS]}]_vars
    /\ [](\A t \in timers : t.ms = RETRY_MS)
    /\ (timers # {}) ~> \/ timers = {}
                        \/ Len(socks) = MaxSockets /\ ~(Connecting \/ Connected)
    /\ [][(timers # {} /\ timers' = {}) =>
             \/ (Connecting \/ Connected) /\ UNCHANGED <<socks, ws>>
             \/ Len(socks') = Len(socks) + 1 /\ Connecting']_vars
    /\ [][\A s \in Socks :
            (s <= Len(socks) /\ socks[s] = "CONNECTING" /\ socks'[s] = "OPEN")
               => Len(out'[s]) > 0 /\ Head(out'[s]) = HelloFrame]_vars

\* the timer armed when the first socket closed has fired, and the second
\* socket has opened and sent hello again
C6_Witness ==
    /\ Len(socks) = 2
    /\ socks[1] = "CLOSED"
    /\ reconnectTimer = 1
    /\ timers = {}
    /\ socks[2] = "OPEN"
    /\ Head(out[2]) = HelloFrame

\* C7: on every socket that has opened, the first frame sent is the hello frame
\* and the second the boot-1 ping, before any result
C7_HelloAndBootFirst ==
    \A s \in Socks :
        /\ (s <= Len(socks) /\ socks[s] = "OPEN") => Len(out[s]) >= 2
        /\ Len(out[s]) >= 1 => out[s][1] = HelloFrame
        /\ Len(out[s]) >= 2 => out[s][2] = BootFrame

\* a result went out on the second connection, after its hello and ping
C7_Witness == \E p \in SentResults : p.s = 2 /\ p.k = 3

\* C8: a result is sent if the connection is Connected when it is produced,
\* and dropped otherwise; a dropped result is never sent later
C8_SentIffConnected ==
    /\ [][(Connected' => warned' = warned) /\ (~Connected' => out' = out)]_vars
    /\ [](\A f \in warned : \A p \in Sent : FrameAt(p) # f)

\* a result was dropped, the client has reconnected and every command is settled
C8_Witness ==
    /\ warned # {}
    /\ Len(socks) = 2
    /\ socks[2] = "OPEN"
    /\ \A id \in Received : Settled(id)

\* C9: an inbound frame that is not JSON, or has no cmd or an empty one, sends
\* no frame, runs no handler and leaves the connection, the reconnect timer and
\* the tracked active tab as they are
C9_MalformedFrameDiscarded ==
    [][\A s \in Socks, f \in InfoFrames :
          OnMessage(s, f) =>
             UNCHANGED <<out, warned, nrecv, h, socks, ws, reconnectTimer, timers,
                         activeTabId>>]_vars

\* a frame was discarded while a command was in progress and a tab was tracked
C9_Witness ==
    /\ lastPath = "discard"
    /\ activeTabId # 0
    /\ \E id \in Received : Running(id)

\* C10: for a switchTab, screenshot or openTab command no content script is
\* probed or injected and no adapter:cmd message is sent to a tab
C10_TabCommandsSendNoDomCommand ==
    \A id \in Ids :
        h[id].cmd \in {"switchTab", "screenshot", "openTab"} =>
            h[id].pc \notin {"probe", "inject", "settle", "send", "retryDelay",
                             "exec", "lost"}

\* C11: a switchTab command whose index is out of range and whose title is
\* given ends with the result ok for the first open tab whose title contains
\* it, that tab shown and tracked as the active tab; when no tab matches it
\* ends with the error tab_not_found and the tracked active tab unchanged
C11_SwitchTabByTitle ==
    [][\A id \in Ids :
         (h[id].cmd = "switchTab" /\ h'[id].pc = "done") =>
            IF Target(h[id].arg, tabs) # 0
            THEN /\ Emitted(Result(id, TRUE, "switched"))
                 /\ activeTabId' = Target(h[id].arg, tabs)
                 /\ shown' = Target(h[id].arg, tabs)
            ELSE /\ Emitted(Result(id, FALSE, "tab_not_found"))
                 /\ activeTabId' = activeTabId]_vars

\* C12: a ping command is answered at once with ok and "pong": the handler
\* returns in the step that received it, no tab is queried, created or
\* messaged, no content script is probed or injected, and the tracked active
\* tab stays as it is
C12_PingNeedsNoTab ==
    [][\A s \in Socks, f \in CmdFrames :
         (f.cmd = "ping" /\ OnMessage(s, f)) =>
            /\ Emitted(Result(IdNames[nrecv + 1], TRUE, "pong"))
            /\ h'[IdNames[nrecv + 1]].pc = "done"
            /\ UNCHANGED <<activeTabId, tabs, shown, exec, oob>>]_vars

\* a pong was sent while no tab is open and none is tracked
C12_Witness ==
    /\ tabs = 0
    /\ activeTabId = 0
    /\ \E p \in SentResults : FrameAt(p).val = "pong"

\* C13: a step in which the call of a command ends on an exception (a rejected
\* chrome.tabs.update, the load timeout, a send that fails for another reason
\* than a missing receiver, the attempts used up, a rejected tabs.create or
\* captureVisibleTab) hands wsSend the result with the command's id, ok false
\* and the exception's message, and leaves the connection as it is
C13_ExceptionsBecomeResults ==
    [][\A id \in Ids :
         /\ (h[id].pc \in UpdatePcs \cup {"load0", "load1", "loadMissed", "lost", "retryDelay"}
               /\ h'[id].pc = "done") =>
                /\ Emitted(Result(id, FALSE,
                      CASE h[id].pc \in UpdatePcs -> "api_error"
                        [] h[id].pc \in {"load0", "load1", "loadMissed"} -> "tab_load_timeout"
                        [] h[id].pc = "lost" -> ChannelClosedMsg
                        [] OTHER -> "no_receiver_after_retry"))
                /\ UNCHANGED connVars
         /\ (h[id].pc \in {"open", "capture"} /\ h'[id].pc = "done") =>
                /\ \/ Emitted(Result(id, FALSE, "api_error"))
                   \/ Emitted(Result(id, TRUE, "opened"))
                   \/ \E t \in TabIds : Emitted(Result(id, TRUE, DataUrls[t]))
                /\ UNCHANGED connVars]_vars

\* the results of two exceptions were sent: a load timeout and a send that the
\* tab's navigation cut off
C13_Witness ==
    /\ \E p \in SentResults : FrameAt(p).val = "tab_load_timeout" /\ ~FrameAt(p).ok
    /\ \E p \in SentResults : FrameAt(p).val = ChannelClosedMsg /\ ~FrameAt(p).ok

\* C14: a command is sent to its tab at most twice; a send that finds no
\* receiver runs ensureContentScript again, after which the first such failure
\* is followed by the second send and the second by the error
\* no_receiver_after_retry as the command's result
C14_TwoSendAttempts ==
    /\ [](\A id \in Ids : h[id].pc = "send" => h[id].i + 1 <= 2)
    /\ [][\A id \in Ids :
            /\ (h[id].pc = "send" /\ h'[id] # h[id] /\ ~exec[h[id].tab]) =>
                  h'[id].pc = "probe" /\ h'[id].ens = "retry" /\ h'[id].i = h[id].i
            /\ (h[id].pc = "retryDelay" /\ h'[id] # h[id] /\ h[id].i = 0) =>
                  h'[id].pc = "send" /\ h'[id].i = 1
            /\ (h[id].pc = "retryDelay" /\ h'[id] # h[id] /\ h[id].i = 1) =>
                  /\ Emitted(Result(id, FALSE, "no_receiver_after_retry"))
                  /\ h'[id].pc = "done"]_vars

\* both sends of a command found no receiver and its result was sent
C14_Witness ==
    \E p \in SentResults :
        FrameAt(p).val = "no_receiver_after_retry" /\ h[FrameAt(p).id].pc = "done"

\* C15: a send that fails for another reason than a missing receiver ends the
\* command in that step: its result carries that failure's message, no
\* further send or ensureContentScript run follows and nothing is injected
C15_OtherFailurePropagates ==
    [][\A id \in Ids :
         (h[id].pc = "lost" /\ h'[id] # h[id]) =>
            /\ Emitted(Result(id, FALSE, ChannelClosedMsg))
            /\ ~Emitted(Result(id, FALSE, "no_receiver_after_retry"))
            /\ h'[id].pc = "done"
            /\ exec' = exec]_vars

\* the only command received was cut off by its tab's navigation: its result is
\* that failure, and no content script was injected into the new document
C15_Witness ==
    /\ nrecv = 1
    /\ h[IdNames[1]].pc = "done"
    /\ \E p \in SentResults : FrameAt(p) = Result(IdNames[1], FALSE, ChannelClosedMsg)
    /\ \A t \in TabIds : ~exec[t]

\* C16: ensureContentScript injects only after a probe that was not answered
\* with ok; after an answered probe it goes straight back to its caller, with
\* no executeScript and no settle delay, and the tab's executor stays as it
\* was, however many commands probe the tab one after the other; a tab gains
\* an executor only by the injection of a command that is at executeScript
C16_InjectOnlyUnanswered ==
    [][/\ \A id \in Ids :
            /\ (h[id].pc = "probe" /\ h'[id] # h[id]) =>
                  IF exec[h[id].tab] /\ script = "direct"
                  THEN h'[id].pc \notin {"inject", "settle"} /\ exec' = exec
                  ELSE h'[id].pc = "inject"
            /\ (h'[id].pc = "inject" /\ h[id].pc # "inject") =>
                  h[id].pc = "probe" /\ ~(exec[h[id].tab] /\ script = "direct")
            /\ (h'[id].pc = "settle" /\ h[id].pc # "settle") => h[id].pc = "inject"
       /\ \A t \in TabIds :
            (exec'[t] /\ ~exec[t]) =>
               \E id \in Ids : h[id].pc = "inject" /\ h[id].tab = t /\ h'[id].pc = "settle"]_vars

\* a second DOM command has probed the tab the first one was executed in, and
\* is at its send with the executor still in place
C16_Witness ==
    /\ script = "direct"
    /\ h[IdNames[1]].pc = "done"
    /\ \E p \in SentResults : FrameAt(p) = Result(IdNames[1], FALSE, "waitFor_timeout")
    /\ h[IdNames[2]].pc = "send"
    /\ h[IdNames[2]].ens = "dom"
    /\ h[IdNames[2]].i = 0
    /\ exec[h[IdNames[2]].tab]

\* C17: navigate sends its ok result only from the ensureContentScript run
\* that follows the load: that run starts only when the tab reported load
\* complete, which is waited for only after chrome.tabs.update resolved, and
\* it probes the tab that was updated; a wait that ends otherwise sends the
\* error tab_load_timeout and ends the command, and no command gets both that
\* error and the ok result
C17_NavigateOrder ==
    /\ [](\A id \in Ids :
            ~(\E p, q \in SentResults :
                /\ FrameAt(p) = Result(id, FALSE, "tab_load_timeout")
                /\ FrameAt(q) = Result(id, TRUE, "navigated")))
    /\ [][\A id \in Ids :
            /\ Emitted(Result(id, TRUE, "navigated")) =>
                  h[id].pc \in {"probe", "settle"} /\ h[id].ens = "nav"
            /\ (h'[id].ens = "nav" /\ h[id].ens # "nav") =>
                  h[id].pc = "load1" /\ h'[id].pc = "probe" /\ h'[id].tab = h[id].tab
            /\ (h'[id].pc = "load1" /\ h[id].pc # "load1") =>
                  h[id].pc \in {"load0", "loadMissed", "updateCommitted"}
            /\ (h'[id].pc \in {"load0", "load1", "loadMissed"}
                  /\ h[id].pc \notin {"load0", "load1", "loadMissed"}) =>
                  h[id].pc \in UpdatePcs /\ h'[id].tab = h[id].tab
            /\ (h'[id].pc \in UpdatePcs /\ h[id].pc \notin UpdatePcs) =>
                  h'[id].pc = "update"
            /\ (h[id].pc \in {"load0", "load1", "loadMissed"} /\ h'[id] # h[id]
                  /\ h'[id].pc \notin {"load1", "probe"}) =>
                  /\ Emitted(Result(id, FALSE, "tab_load_timeout"))
                  /\ h'[id].pc = "done"]_vars

\* a navigate command went through update, load and ensureContentScript and
\* its ok result is sent
C17_Witness ==
    /\ h[IdNames[1]].pc = "done"
    /\ \E p \in SentResults : FrameAt(p) = Result(IdNames[1], TRUE, "navigated")
    /\ ~(\E p \in SentResults : FrameAt(p).id = IdNames[2])

\* C18: when navigate or a DOM command takes its tab while a tab is tracked
\* as active, the tab it takes is the tracked one
C18_TrackedTabFirst ==
    [][\A id \in Ids :
         (/\ h[id].tab = 0
          /\ h'[id].tab # 0
          /\ h'[id].pc \in {"update", "probe"}
          /\ activeTabId # 0) => h'[id].tab = activeTabId]_vars

\* C19: an openTab command without url ends when it is received, with the
\* error missing_url, no tab more and the tracked tab as it was, and never
\* reaches chrome.tabs.create; an openTab whose ok result is sent has created
\* one tab and made it the tracked tab, whether the browser shows it or not
C19_OpenTab ==
    [][/\ \A s \in Socks :
            OnMessage(s, [json |-> TRUE, obj |-> TRUE, cmd |-> "openTab", arg |-> ""]) =>
               /\ Emitted(Result(IdNames[nrecv + 1], FALSE, "missing_url"))
               /\ h'[IdNames[nrecv + 1]].pc = "done"
               /\ tabs' = tabs
               /\ activeTabId' = activeTabId
       /\ \A id \in Ids :
            /\ (h'[id].pc = "open" /\ h[id].pc # "open") =>
                  h'[id].cmd = "openTab" /\ h'[id].arg # ""
            /\ Emitted(Result(id, FALSE, "missing_url")) =>
                  h[id].pc = "idle" /\ tabs' = tabs /\ activeTabId' = activeTabId
            /\ Emitted(Result(id, TRUE, "opened")) =>
                  /\ h[id].pc = "open"
                  /\ tabs' = tabs + 1
                  /\ activeTabId' = tabs + 1]_vars

\* an openTab without url was refused and an openTab with active=false was
\* done: the new tab is tracked while the browser shows the old one
C19_Witness ==
    /\ \E p \in SentResults : FrameAt(p) = Result(IdNames[1], FALSE, "missing_url")
    /\ \E p \in SentResults : FrameAt(p) = Result(IdNames[2], TRUE, "opened")
    /\ tabs = 2
    /\ activeTabId = 2
    /\ shown = 1

\* C20: the picture a screenshot command answers with is a picture of the
\* tab the command took as the tracked active tab
C20_CapturesTrackedTab ==
    [][\A id \in Ids : \A t \in TabIds :
         (h[id].pc = "capture" /\ Emitted(Result(id, TRUE, DataUrls[t]))) =>
            t = h[id].tab]_vars

\* C25: the step in which a socket fails (its error and close events) changes
\* the state of no other socket
C25_ErrorClosesOwnSocket ==
    [][\A s \in 1..Len(socks) :
         (socks[s] # "CLOSED" /\ socks'[s] = "CLOSED") =>
            \A u \in (1..Len(socks)) \ {s} : socks'[u] = socks[u]]_vars

\* C26: an injection that leaves the tab without executor neither ends the
\* command nor sends a result: ensureContentScript waits its settle delay and
\* returns to its caller, a DOM command goes on to its send, a send that finds
\* no receiver goes to the retry, and the retry after the last attempt sends
\* no_receiver_after_retry, which is then the only result of the command
C26_InjectFailureNotFatal ==
    /\ [](\A id \in Ids :
            (\E p \in SentResults : FrameAt(p) = Result(id, FALSE, "no_receiver_after_retry"))
               => SentCount(id) = 1)
    /\ [][\A id \in Ids :
            /\ (h[id].pc = "inject" /\ h'[id] # h[id]) =>
                  /\ h'[id].pc = "settle"
                  /\ out' = out
                  /\ warned' = warned
            /\ (h[id].pc = "settle" /\ h'[id] # h[id] /\ ~exec[h[id].tab]) =>
                  /\ h[id].ens = "dom" => h'[id].pc = "send" /\ out' = out
                  /\ h[id].ens = "retry" => h'[id].pc = "retryDelay" /\ out' = out
            /\ (h[id].pc = "send" /\ h'[id] # h[id] /\ ~exec[h[id].tab]) =>
                  h'[id].pc = "probe" /\ out' = out
            /\ (h[id].pc = "retryDelay" /\ h'[id] # h[id] /\ h[id].i + 1 = Attempts) =>
                  Emitted(Result(id, FALSE, "no_receiver_after_retry"))]_vars

\* the only command received found no executor, every injection failed, and
\* its result is no_receiver_after_retry
C26_Witness ==
    /\ nrecv = 1
    /\ \A t \in TabIds : ~exec[t]
    /\ SentCount(IdNames[1]) = 1
    /\ \E p \in SentResults :
         FrameAt(p) = Result(IdNames[1], FALSE, "no_receiver_after_retry")

\* C28: whatever the commands in progress wait for, an open socket can hand
\* the next command to handleControllerCommand, which runs it up to its first
\* await in that step and leaves the calls of the other commands as they are
C28_NoQueue ==
    /\ [](\A s \in 1..Len(socks) :
            (socks[s] = "OPEN" /\ nrecv < MaxCmds) =>
               \A f \in CmdFrames : ENABLED OnMessage(s, f))
    /\ [][nrecv' = nrecv + 1 =>
            /\ h'[IdNames[nrecv + 1]].pc # "idle"
            /\ \A id \in Ids \ {IdNames[nrecv + 1]} : h'[id] = h[id]]_vars

\* the result of the second command is sent while the first command still
\* waits for its content script's answer
C28_Witness ==
    /\ h[IdNames[1]].pc = "exec"
    /\ SentCount(IdNames[1]) = 0
    /\ SentCount(IdNames[2]) = 1
    /\ h[IdNames[2]].pc = "done"

\* two DOM commands wait for the answer of the content script of one tab
C28_BothInProgress ==
    /\ h[IdNames[1]].pc = "exec"
    /\ h[IdNames[2]].pc = "exec"
    /\ h[IdNames[1]].tab = h[IdNames[2]].tab

\* C29: a send that finds the content script listening hands the command to
\* it, and from then on the command only waits for the answer or ends: it
\* never comes back to a send or to ensureContentScript; a command comes to
\* an attempt after the first only through the retry that follows a send
\* which found no receiver in the tab
C29_DeliveredAtMostOnce ==
    [][\A id \in Ids :
         /\ (h[id].pc = "send" /\ h'[id] # h[id] /\ exec[h[id].tab]) =>
               h'[id].pc \in {"exec", "done"}
         /\ (h[id].pc \in {"exec", "lost"}) =>
               h'[id].pc \in {"exec", "lost", "done"}
         /\ (h'[id].ens = "retry" /\ h[id].ens # "retry") =>
               h[id].pc = "send" /\ ~exec[h[id].tab]
         /\ (h'[id].pc = "retryDelay" /\ h[id].pc # "retryDelay") => h[id].ens = "retry"
         /\ (h'[id].pc = "send" /\ h[id].pc # "send" /\ h'[id].i > 0) =>
               h[id].pc = "retryDelay" /\ h'[id].i = h[id].i + 1]_vars

\* a command whose first send found no receiver is with the content script
\* after its second send
C29_Witness ==
    \E id \in Ids : h[id].pc = "exec" /\ h[id].i = 1 /\ exec[h[id].tab]

\* C30: once a command has its tab, every later step of the command keeps
\* it, whatever happens to the tracked active tab: the probes, the injections
\* and the sends of its retries go to that tab, and an injection of the
\* command puts the content script into that tab only
C30_TabReadOnce ==
    [][\A id \in Ids :
         /\ (h[id].tab # 0 /\ h'[id].pc # "done") => h'[id].tab = h[id].tab
         /\ (h[id].pc = "inject" /\ h'[id] # h[id]) =>
               \A t \in TabIds \ {h[id].tab} : exec'[t] = exec[t]]_vars

\* a DOM command is in the retry of its send on its tab while another tab
\* has become the tracked active tab
C30_Witness ==
    \E id \in Ids :
        /\ h[id].pc = "send"
        /\ h[id].i = 1
        /\ activeTabId # 0
        /\ activeTabId # h[id].tab

\* C21: a call of waitFor that has settled has neither its MutationObserver
\* observing nor its interval running
C21_TornDownWhenSettled ==
    \A c \in Calls :
        (call[c].cmd = "waitFor" /\ call[c].st = "settled") =>
            ~call[c].observer /\ ~call[c].poll

\* C22: a call of waitFor that resolves does so for an element that came into
\* the document no later than timeoutMs after the call
C22_NoResolveAfterTimeout ==
    [][\A c \in Calls :
         (call[c].st = "pending" /\ call'[c].resp = Ok("waitedFor")) =>
            \A t \in matchSince' : t - call[c].start <= call[c].timeoutMs]_vars

\* C23: a query with all=true without selector fails with missing_selector;
\* with a selector it answers with the values of the elements the selector
\* matches, in document order: the first limit of them when limit is an
\* integer that is not negative, and all of them for every other limit
C23_QueryLimit ==
    [][\A sel \in SelInputs, limit \in LimitInputs :
         QueryMsg(sel, TRUE, limit) =>
            LET r == call'[ncall + 1].resp
                matches == All(sel, matchSince)
            IN IF sel = ""
               THEN r = Err("missing_selector")
               ELSE /\ r.ok
                    /\ r.results = IF limit.int /\ limit.n >= 0
                                   THEN SubSeq(matches, 1,
                                               IF limit.n > Len(matches) THEN Len(matches)
                                               ELSE limit.n)
                                   ELSE matches]_vars

\* C24: a click with neither selector nor xy answers missing_selector_or_xy,
\* a click whose selector or point gives no element answers
\* element_not_found, and a click that answers one of the two errors
\* dispatches nothing: the side effects are the ones dispatched before it
C24_FailedClickNoEffect ==
    [][\A sel \in SelInputs, xy \in XyInputs :
         ClickMsg(sel, xy) =>
            LET r == call'[ncall + 1].resp IN
            /\ (sel = "" /\ xy = "none") => r = Err("missing_selector_or_xy")
            /\ (sel # "" /\ ~Found(sel, matchSince)) => r = Err("element_not_found")
            /\ (sel = "" /\ xy = "outside") => r = Err("element_not_found")
            /\ r \in {Err("missing_selector_or_xy"), Err("element_not_found")} =>
                  effects' = effects
            /\ r.ok => Len(effects') = Len(effects) + 3]_vars

\* one click without selector and xy and one click on an element that is not
\* there have been answered, and nothing was dispatched
C24_Witness ==
    /\ call[1].cmd = "click"
    /\ call[1].resp = Err("missing_selector_or_xy")
    /\ call[2].cmd = "click"
    /\ call[2].resp = Err("element_not_found")
    /\ effects = <<>>

\* C27: the listener takes an adapter:ping in every state, whatever calls are
\* pending, and answers it with ok in the step in which it gets it: no call
\* for a ping is ever pending, and the step leaves the other calls alone
C27_PingAnsweredAtOnce ==
    /\ [](\A c \in Calls :
            call[c].cmd = "ping" =>
               call[c].st = "settled" /\ call[c].resp = Ok("adapter:pong"))
    /\ [](ncall < MaxCalls => ENABLED PingMsg)
    /\ [][\A c \in Calls :
            (call[c].cmd # "ping" /\ call'[c].cmd = "ping") =>
               \A d \in Calls \ {c} : call'[d] = call[d]]_vars

\* a ping was answered while an earlier waitFor is still pending
C27_Witness ==
    /\ call[1].cmd = "waitFor"
    /\ call[1].st = "pending"
    /\ call[2].cmd = "ping"
    /\ call[2].resp.ok

\* C31: whenever no socket is CONNECTING or OPEN, a reconnect timer is
\* pending or the current socket is CLOSING, with its close event still to
\* come; and never more than one reconnect timer is pending
C31_NeverStuck ==
    /\ (\A s \in 1..Len(socks) : ~Live(socks[s])) =>
          (timers # {} \/ (ws # 0 /\ socks[ws] = "CLOSING"))
    /\ Cardinality(timers) <= 1

\* the first socket and the socket of a reconnect are both closed, and the
\* timer the second close armed is the one that is pending
C31_Witness ==
    /\ Len(socks) = 2
    /\ \A s \in 1..Len(socks) : socks[s] = "CLOSED"
    /\ timers = {[h |-> 2, ms |-> RETRY_MS]}
    /\ reconnectTimer = 2

\* C32: a navigate whose tab has reported the load complete after the URL
\* update was issued, be it before the listener of waitForTabComplete was
\* registered, does not end with the error tab_load_timeout
C32_CompleteMeansOk ==
    [][\A id \in Ids :
         h[id].pc = "loadMissed" =>
            ~Emitted(Result(id, FALSE, "tab_load_timeout"))]_vars

\* C33: no two commands have chrome.scripting.executeScript under way for
\* the same tab at the same time: the content script is injected into a tab
\* without executor by one command only
C33_InjectedOnce ==
    \A id \in Ids : \A other \in Ids \ {id} :
        ~(/\ h[id].pc = "inject"
          /\ h[other].pc = "inject"
          /\ h[id].tab = h[other].tab
          /\ ~exec[h[id].tab])

=============================================================================
